---------------------------- MODULE Spec2Model ----------------------------
(***************************************************************************)
(* Model of the client-server-api repository: an HTTP server that fetches  *)
(* the USD-BRL "bid" from an upstream JSON API and stores it in a quotes   *)
(* table, and a client that asks the server and writes the bid to a file.  *)
(*                                                                         *)
(* Server variants modelled (the repository holds near-duplicates):        *)
(*   "gorm"     src/server/server.go                                       *)
(*   "sql"      src/unnamed/part_001, lines 1-173                          *)
(*   "basic"    src/unnamed/part_000, lines 100-202                        *)
(*   "fetcher"  src/unnamed/part_000, lines 204-363                        *)
(* The client is src/unnamed/part_000, lines 1-98.                         *)
(*                                                                         *)
(* The two other servers of part_001 repeat these: lines 175-312 are the   *)
(* "basic" handler with a status check, lines 314-512 the "gorm" handler   *)
(* with nil checks.                                                        *)
(*                                                                         *)
(* Time is in milliseconds and is local to a request: now[r] is the time   *)
(* elapsed since request r reached its handler.  A row is its id and its   *)
(* bid; the time column, which no code reads, is left out.                 *)
(***************************************************************************)
EXTENDS Integers, Sequences, FiniteSets, TLC

VARIABLES
    variant,      \* which server binary is running
    db,           \* the quotes table: sequence of rows [id, bid]
    pc,           \* pc[r]: position of request r's handler
    now,          \* now[r]: ms elapsed since request r arrived
    fetchCtx,     \* fetchCtx[r]: context of the upstream call
    insertCtx,    \* insertCtx[r]: context of the database statement
    insertStart,  \* insertStart[r]: now[r] when the insert context was made
    bid,          \* bid[r]: the handler's local variable bid
    sent,         \* sent[r]: the USDBRL.bid string the upstream put on the wire
    upStatus,     \* upStatus[r]: the status the upstream answered with, 0 if none
    upDone,       \* upDone[r]: ms the upstream needed to complete its answer
    err,          \* err[r]: the error the failing step returned
    resp,         \* resp[r]: what the handler wrote to the ResponseWriter
    log,          \* log[r]: lines request r's handler wrote to the server log
    rowId,        \* rowId[r]: id of the row request r inserted, 0 if none
    calls,        \* calls[r]: calls request r's handler made, by callee
    hang,         \* hang[r]: the call request r waits for never completes by itself
    cpc,          \* client: position of main
    cbid,         \* client: main's local variable bid
    cerr,         \* client: the error of the failing step
    outFile,      \* client: cotacao.txt
    prevOutFile,  \* client: cotacao.txt as it was before the last Sink call
    logFile,      \* client: cotacao_log.txt
    stdout,       \* client: lines printed by the current run
    runs,         \* client: number of process runs started
    sinkArgs,     \* client: arguments of the last Sink call
    stderr,       \* client: lines the standard logger wrote in the current run
    ccalls        \* client: calls the current run made, by callee

serverVars == <<variant, db, pc, now, fetchCtx, insertCtx, insertStart, bid,
                sent, upStatus, upDone, err, resp, log, rowId, calls, hang>>
clientVars == <<cpc, cbid, cerr, outFile, prevOutFile, logFile, stdout, runs,
                sinkArgs, stderr, ccalls>>
vars == <<serverVars, clientVars>>

-----------------------------------------------------------------------------
(* Bounds *)

MaxRequests == 2
MaxRuns == 2

Requests == 1..MaxRequests

-----------------------------------------------------------------------------
(* Program constants *)

FetchTimeout == 200
InsertTimeout == 10
timeoutDuration == 300
QuotesFetchTimeout == 200
DatabaseInsertTimeout == 10
StatusOK == 200
StatusInternalServerError == 500
StatusGatewayTimeout == 504

-----------------------------------------------------------------------------
(* JSON documents and HTTP bodies, as abstract syntax *)

JStr(s) == [t |-> "str", s |-> s]
JNum(s) == [t |-> "num", s |-> s]
JObj(m) == [t |-> "obj", m |-> m]
Text(s) == [t |-> "text", s |-> s]
EmptyMap == <<>>

\* The non-empty bid strings the environment may send.
Bids == {"5.43", "5.20"}

\* Bodies the upstream API may send with status 200.
UpstreamBodies ==
    {JObj("USDBRL" :> JObj("bid" :> JStr(b))) : b \in Bids \cup {""}}
    \cup {JObj("USDBRL" :> JObj("code" :> JStr("USD"))),
          JObj(EmptyMap),
          JObj("USDBRL" :> JObj("bid" :> JNum("5.43"))),
          JObj("USDBRL" :> JObj(("bid" :> JStr("5.43")) @@ ("high" :> JNum("5.5")))),
          Text("<html>")}

\* Time to the response headers, and from the headers to the end of a body
\* that comes slowly.
HeaderDelays == {50, 195, 300}
BodyDelays == {250}
\* Time the database needs for the statement.
DbLatencies == {8, 20}
DbOutcomes == {"ok", "error"}

\* Statuses other than 200 the upstream may answer with.
FailStatuses == {503}

\* What the upstream does with one request.
Upstream ==
    {[kind |-> "refused", status |-> 0, body |-> Text(""), hd |-> 50, bd |-> 0]}
    \cup {[kind |-> "response", status |-> st,
           body |-> Text("unavailable"), hd |-> h, bd |-> 0] :
            st \in FailStatuses, h \in {50, 300}}
    \cup {[kind |-> "response", status |-> st,
           body |-> JObj("USDBRL" :> JObj("bid" :> JStr("5.43"))), hd |-> 50, bd |-> 0] :
            st \in FailStatuses}
    \cup {[kind |-> "response", status |-> StatusOK, body |-> b, hd |-> h, bd |-> 0] :
            b \in UpstreamBodies, h \in HeaderDelays}
    \cup {[kind |-> "response", status |-> StatusOK,
           body |-> JObj("USDBRL" :> JObj("bid" :> JStr(b))), hd |-> 50, bd |-> d] :
            b \in Bids, d \in BodyDelays}

\* An upstream that accepts the request and never answers it: its answer
\* comes after every deadline of the program.
Silent == [kind |-> "silent", status |-> 0, body |-> Text(""), hd |-> 3600000, bd |-> 0]

\* What the upstream does with a request, given whether it ever answers.
Answers(h) == IF h THEN {Silent} ELSE Upstream

\* Time the database needs, given whether the statement ever completes.
Latencies(h) == IF h THEN {3600000} ELSE DbLatencies

\* The string at USDBRL.bid of what the upstream sent, read off the wire.
NoBid == "<none>"
SentBid(up) ==
    IF /\ up.kind = "response"
       /\ up.body.t = "obj"
       /\ "USDBRL" \in DOMAIN up.body.m
       /\ up.body.m["USDBRL"].t = "obj"
       /\ "bid" \in DOMAIN up.body.m["USDBRL"].m
       /\ up.body.m["USDBRL"].m["bid"].t = "str"
    THEN up.body.m["USDBRL"].m["bid"].s
    ELSE NoBid

-----------------------------------------------------------------------------
(* context.Context: only the deadline matters here *)

Background == [has |-> FALSE, deadline |-> 0]

\* context.WithTimeout(parent, d) at time t: the earlier of the two deadlines.
WithTimeout(parent, t, d) ==
    IF parent.has /\ parent.deadline <= t + d
    THEN parent
    ELSE [has |-> TRUE, deadline |-> t + d]

\* ctx.Err() # nil at time t.
Expired(ctx, t) == ctx.has /\ t >= ctx.deadline

\* A call blocked under ctx returns: by itself, or when ctx is done, which a
\* context without deadline never is.
Returns(ctx, never) == never => ctx.has

\* r.Context(): the server sets no read/write timeouts, so no deadline.
RequestContext == Background

-----------------------------------------------------------------------------
(* Errors: kind, and whether errors.Is(err, context.DeadlineExceeded) *)

NoErr == [kind |-> "none", isDeadline |-> FALSE]
Err(k) == [kind |-> k, isDeadline |-> FALSE]
DeadlineErr(k) == [kind |-> k, isDeadline |-> TRUE]

NoResp == [status |-> 0, ctype |-> "", body |-> Text("")]

\* http.Error(w, msg, code)
HttpError(msg, code) ==
    [status |-> code, ctype |-> "text/plain; charset=utf-8", body |-> Text(msg \o "\n")]

\* w.Header().Set("Content-Type", "application/json");
\* json.NewEncoder(w).Encode(map[string]string{"bid": bid})
JsonBid(b) ==
    [status |-> StatusOK, ctype |-> "application/json", body |-> JObj("bid" :> JStr(b))]


-----------------------------------------------------------------------------
(* encoding/json decoding *)

\* json Decode into map[string]map[string]string: every value of the document
\* must be an object whose values are all strings.
DecodeMapMapOk(body) ==
    /\ body.t = "obj"
    /\ \A k \in DOMAIN body.m :
          /\ body.m[k].t = "obj"
          /\ \A k2 \in DOMAIN body.m[k].m : body.m[k].m[k2].t = "str"

DecodeMapMap(body) ==
    [k \in DOMAIN body.m |-> [k2 \in DOMAIN body.m[k].m |-> body.m[k].m[k2].s]]

\* data["USDBRL"]["bid"]: indexing a missing (nil) inner map gives "", false.
IndexUSDBRLBid(data) ==
    IF "USDBRL" \in DOMAIN data /\ "bid" \in DOMAIN data["USDBRL"]
    THEN [v |-> data["USDBRL"]["bid"], ok |-> TRUE]
    ELSE [v |-> "", ok |-> FALSE]

\* json Decode into APIResponse{USDBRL Quote{Bid string}}: unknown keys are
\* skipped, a known key of the wrong type is an error, a missing key leaves "".
DecodeAPIResponseOk(body) ==
    /\ body.t = "obj"
    /\ "USDBRL" \in DOMAIN body.m =>
          /\ body.m["USDBRL"].t = "obj"
          /\ "bid" \in DOMAIN body.m["USDBRL"].m =>
                body.m["USDBRL"].m["bid"].t = "str"

DecodeAPIResponse(body) ==
    IF "USDBRL" \in DOMAIN body.m /\ "bid" \in DOMAIN body.m["USDBRL"].m
    THEN body.m["USDBRL"].m["bid"].s
    ELSE ""

\* json Decode into map[string]string (the client).
DecodeMapOk(body) ==
    /\ body.t = "obj"
    /\ \A k \in DOMAIN body.m : body.m[k].t = "str"

DecodeMap(body) == [k \in DOMAIN body.m |-> body.m[k].s]

-----------------------------------------------------------------------------
(* The Fetchers.  Each takes the context of the call, the time of the call  *)
(* and what the upstream does, and returns [bid, err, at]: the returned     *)
(* string, the returned error and the time of the return.                   *)

FetchResult(b, e, t) == [bid |-> b, err |-> e, at |-> t]

\* http.Client.Do under ctx: the headers arrive, the connection fails, or the
\* deadline comes first.  Returns the error of Do and the time it returns.
ClientDo(ctx, t, up) ==
    IF Expired(ctx, t + up.hd) THEN [err |-> DeadlineErr("do"), at |-> ctx.deadline]
    ELSE IF up.kind = "refused" THEN [err |-> Err("do"), at |-> t + up.hd]
    ELSE [err |-> NoErr, at |-> t + up.hd]

\* Reading resp.Body to its end under ctx.
ReadBody(ctx, t, up) ==
    IF Expired(ctx, t + up.bd) THEN [err |-> DeadlineErr("read"), at |-> ctx.deadline]
    ELSE [err |-> NoErr, at |-> t + up.bd]

\* A bug a Fetcher could have: the bid goes through a number and back.
fetchQuote_Reformat(ctx, t, up) ==
    LET do == ClientDo(ctx, t, up)
        rd == ReadBody(ctx, do.at, up)
        ix == IndexUSDBRLBid(DecodeMapMap(up.body))
    IN  IF do.err # NoErr THEN FetchResult("", do.err, do.at)
        ELSE IF up.status # StatusOK THEN FetchResult("", Err("status"), do.at)
        ELSE IF rd.err # NoErr THEN FetchResult("", [rd.err EXCEPT !.kind = "decode"], rd.at)
        ELSE IF ~DecodeMapMapOk(up.body) THEN FetchResult("", Err("decode"), rd.at)
        ELSE IF ~ix.ok \/ ix.v = "" THEN FetchResult("", Err("missing"), rd.at)
        ELSE FetchResult(IF ix.v = "5.20" THEN "5.2" ELSE ix.v, NoErr, rd.at)

\* A bug a Fetcher could have: the status of the answer is not looked at.
fetchQuote_NoStatus(ctx, t, up) ==
    LET do == ClientDo(ctx, t, up)
        rd == ReadBody(ctx, do.at, up)
        ix == IndexUSDBRLBid(DecodeMapMap(up.body))
    IN  IF do.err # NoErr THEN FetchResult("", do.err, do.at)
        ELSE IF rd.err # NoErr THEN FetchResult("", [rd.err EXCEPT !.kind = "decode"], rd.at)
        ELSE IF ~DecodeMapMapOk(up.body) THEN FetchResult("", Err("decode"), rd.at)
        ELSE IF ~ix.ok \/ ix.v = "" THEN FetchResult("", Err("missing"), rd.at)
        ELSE FetchResult(ix.v, NoErr, rd.at)

\* fetchQuote of the "gorm" server.
fetchQuote(ctx, t, up) ==
    LET do == ClientDo(ctx, t, up)
        rd == ReadBody(ctx, do.at, up)
        ix == IndexUSDBRLBid(DecodeMapMap(up.body))
    IN  IF do.err # NoErr THEN FetchResult("", do.err, do.at)
        ELSE IF up.status # StatusOK THEN FetchResult("", Err("status"), do.at)
        ELSE IF rd.err # NoErr THEN FetchResult("", [rd.err EXCEPT !.kind = "decode"], rd.at)
        ELSE IF ~DecodeMapMapOk(up.body) THEN FetchResult("", Err("decode"), rd.at)
        ELSE IF ~ix.ok \/ ix.v = "" THEN FetchResult("", Err("missing"), rd.at)
        ELSE FetchResult(ix.v, NoErr, rd.at)

\* fetchQuote of the "sql" server: the same statements.
fetchQuoteSql(ctx, t, up) ==
    LET do == ClientDo(ctx, t, up)
        rd == ReadBody(ctx, do.at, up)
        ix == IndexUSDBRLBid(DecodeMapMap(up.body))
    IN  IF do.err # NoErr THEN FetchResult("", do.err, do.at)
        ELSE IF up.status # StatusOK THEN FetchResult("", Err("status"), do.at)
        ELSE IF rd.err # NoErr THEN FetchResult("", [rd.err EXCEPT !.kind = "decode"], rd.at)
        ELSE IF ~DecodeMapMapOk(up.body) THEN FetchResult("", Err("decode"), rd.at)
        ELSE IF ~ix.ok \/ ix.v = "" THEN FetchResult("", Err("missing"), rd.at)
        ELSE FetchResult(ix.v, NoErr, rd.at)

\* fetchDollarQuote of the "basic" server: no status check, struct decoding,
\* and the Bid field is returned as it is.
fetchDollarQuoteBasic(ctx, t, up) ==
    LET do == ClientDo(ctx, t, up)
        rd == ReadBody(ctx, do.at, up)
    IN  IF do.err # NoErr THEN FetchResult("", do.err, do.at)
        ELSE IF rd.err # NoErr THEN FetchResult("", [rd.err EXCEPT !.kind = "decode"], rd.at)
        ELSE IF ~DecodeAPIResponseOk(up.body) THEN FetchResult("", Err("decode"), rd.at)
        ELSE FetchResult(DecodeAPIResponse(up.body), NoErr, rd.at)

\* HTTPFetcher.Fetch of the "fetcher" server: returns the body bytes.
\* [body, err, at]
Fetch(ctx, t, up) ==
    LET do == ClientDo(ctx, t, up)
        rd == ReadBody(ctx, do.at, up)
    IN  IF do.err # NoErr THEN [body |-> Text(""), err |-> do.err, at |-> do.at]
        ELSE IF up.status # StatusOK
             THEN [body |-> Text(""), err |-> Err("status"), at |-> do.at]
        ELSE IF rd.err # NoErr THEN [body |-> Text(""), err |-> rd.err, at |-> rd.at]
        ELSE [body |-> up.body, err |-> NoErr, at |-> rd.at]


\* The "fetcher" handler's fetch step: Fetch, then json.Unmarshal into
\* map[string]map[string]string, then data["USDBRL"]["bid"] with only !ok
\* rejected.
handleQuoteFetcherParse(ctx, t, up) ==
    LET f == Fetch(ctx, t, up)
        ix == IndexUSDBRLBid(DecodeMapMap(f.body))
    IN  IF f.err # NoErr THEN FetchResult("", f.err, f.at)
        ELSE IF ~DecodeMapMapOk(f.body) THEN FetchResult("", Err("decode"), f.at)
        ELSE IF ~ix.ok THEN FetchResult("", Err("missing"), f.at)
        ELSE FetchResult(ix.v, NoErr, f.at)

-----------------------------------------------------------------------------
(* The Sinks.  Each takes the context, the time of the call, the table, the *)
(* bid, and what the database does (how long it needs, whether it fails),   *)
(* and returns [db, err, at].                                               *)

Row(i, b) == [id |-> i, bid |-> b]

\* The id an autoincrement primary key gives the next row.
NextId(table) == IF table = <<>> THEN 1 ELSE table[Len(table)].id + 1

\* The id of the row a statement added, 0 if it added none.
InsertedId(before, after) ==
    IF Len(after) > Len(before) THEN after[Len(after)].id ELSE 0

\* A single INSERT statement run under ctx.
ExecInsert(ctx, t, table, b, lat, outcome) ==
    IF Expired(ctx, t) THEN [db |-> table, err |-> DeadlineErr("exec"), at |-> t]
    ELSE IF Expired(ctx, t + lat)
         THEN [db |-> table, err |-> DeadlineErr("exec"), at |-> ctx.deadline]
    ELSE IF outcome = "error" THEN [db |-> table, err |-> Err("exec"), at |-> t + lat]
    ELSE [db |-> Append(table, Row(NextId(table), b)), err |-> NoErr, at |-> t + lat]

\* A bug a Sink could have: an insert that skips a bid already stored.
saveQuote_Dedup(ctx, t, table, b, lat, outcome) ==
    IF \E i \in 1..Len(table) : table[i].bid = b
    THEN [db |-> table, err |-> NoErr, at |-> t + lat]
    ELSE ExecInsert(ctx, t, table, b, lat, outcome)

\* A bug a Sink could have: one row is kept and overwritten by every
\* request after the first.
saveQuote_Upsert(ctx, t, table, b, lat, outcome) ==
    LET ins == ExecInsert(ctx, t, table, b, lat, outcome)
    IN  IF table = <<>> \/ ins.err # NoErr THEN ins
        ELSE [ins EXCEPT !.db = [table EXCEPT ![Len(table)] =
                                    Row(table[Len(table)].id, b)]]

\* A bug a Sink could have: the error of the statement is dropped.
saveQuote_DropError(ctx, t, table, b, lat, outcome) ==
    [ExecInsert(ctx, t, table, b, lat, outcome) EXCEPT !.err = NoErr]

\* saveQuote of the "gorm" server: db.WithContext(ctx).Create(&Quote{Bid: bid}).
saveQuote(ctx, t, table, b, lat, outcome) ==
    ExecInsert(ctx, t, table, b, lat, outcome)

\* saveQuote of the "sql" server: db.ExecContext(ctx, "INSERT INTO quotes ...", bid).
saveQuoteSql(ctx, t, table, b, lat, outcome) ==
    ExecInsert(ctx, t, table, b, lat, outcome)

\* saveToDatabase of the "basic" server: Prepare, then stmt.ExecContext.
saveToDatabase(ctx, t, table, b, lat, outcome) ==
    ExecInsert(ctx, t, table, b, lat, outcome)

\* saveQuoteToDatabase of the "fetcher" server: Prepare, then stmt.ExecContext.
saveQuoteToDatabase(ctx, t, table, b, lat, outcome) ==
    ExecInsert(ctx, t, table, b, lat, outcome)

-----------------------------------------------------------------------------
(* The handlers, statement by statement.  A handler suspends in the         *)
(* upstream call and in the database statement, so it is three steps:       *)
(* up to the upstream call, from its return to the database statement, and  *)
(* from its return to the end.                                              *)

Variants == {"gorm", "sql", "basic", "fetcher"}

LogLine(msg, e) == [msg |-> msg, err |-> e]

\* The context of the upstream call.
FetchContext(v, t) ==
    CASE v = "gorm"    -> WithTimeout(RequestContext, t, FetchTimeout)
      [] v = "sql"     -> WithTimeout(RequestContext, t, FetchTimeout)
      [] v = "basic"   -> WithTimeout(RequestContext, t, 200)
      [] v = "fetcher" -> WithTimeout(RequestContext, t, QuotesFetchTimeout)

\* What the handler logs on entry.
EntryLog(v) ==
    IF v \in {"gorm", "sql"}
    THEN <<LogLine("Recebendo requisição para /cotacao", NoErr)>>
    ELSE <<>>

\* The Fetcher step of the handler.
FetchStep(v, ctx, t, up) ==
    CASE v = "gorm"    -> fetchQuote(ctx, t, up)
      [] v = "sql"     -> fetchQuoteSql(ctx, t, up)
      [] v = "basic"   -> fetchDollarQuoteBasic(ctx, t, up)
      [] v = "fetcher" -> handleQuoteFetcherParse(ctx, t, up)

\* Bugs the handler could have: a deadline answered like any other error;
\* the error put into the body.
handleQuoteFetchError_SameStatus(e) ==
    HttpError("Erro ao buscar cotação", StatusInternalServerError)

handleQuoteFetchError_Detail(e) ==
    IF e.isDeadline
    THEN HttpError("Timeout na requisição à API", StatusGatewayTimeout)
    ELSE HttpError("Erro ao buscar cotação: " \o e.kind, StatusInternalServerError)

\* "gorm": the response to a Fetcher error.
handleQuoteFetchError(e) ==
    IF e.isDeadline
    THEN HttpError("Timeout na requisição à API", StatusGatewayTimeout)
    ELSE HttpError("Erro ao buscar cotação", StatusInternalServerError)

\* "sql": the response to a Fetcher error.
handleQuoteFetchErrorSql(e) ==
    IF e.isDeadline
    THEN HttpError("Timeout na requisição à API", StatusGatewayTimeout)
    ELSE HttpError("erro ao buscar cotação", StatusInternalServerError)

\* "basic": the response to a Fetcher error.
handleQuoteFetchErrorBasic(e) ==
    HttpError("Erro ao buscar cotação", StatusInternalServerError)

\* "fetcher": the response to a Fetcher, decoding or validation error.
handleQuoteFetchErrorFetcher(e) ==
    CASE e.kind = "decode"  -> HttpError("Erro no servidor", StatusInternalServerError)
      [] e.kind = "missing" -> HttpError("Erro ao processar cotação", StatusInternalServerError)
      [] OTHER              -> HttpError("Erro ao buscar cotação", StatusInternalServerError)

FetchErrorResponse(v, e) ==
    CASE v = "gorm"    -> handleQuoteFetchError(e)
      [] v = "sql"     -> handleQuoteFetchErrorSql(e)
      [] v = "basic"   -> handleQuoteFetchErrorBasic(e)
      [] v = "fetcher" -> handleQuoteFetchErrorFetcher(e)

FetchErrorLog(v, e) ==
    CASE v = "gorm"    -> LogLine("Erro ao buscar cotação", e)
      [] v = "sql"     -> LogLine("erro ao buscar cotação", e)
      [] v = "basic"   -> LogLine("Erro ao buscar cotação", e)
      [] v = "fetcher" ->
            CASE e.kind = "decode"  -> LogLine("[ERRO] Falha ao decodificar resposta", e)
              [] e.kind = "missing" -> LogLine("[ERRO] Falha na validação de dados", e)
              [] OTHER              -> LogLine("[ERRO] Falha ao buscar cotação", e)

\* A bug the handler could have: the insert runs under a context without
\* deadline.
insertContext_NoDeadline(fctx, t) == Background

\* "gorm": ctx, cancel = context.WithTimeout(context.Background(), config.InsertTimeout)
insertContext(fctx, t) == WithTimeout(Background, t, InsertTimeout)

\* "sql": the same statement.
insertContextSql(fctx, t) == WithTimeout(Background, t, InsertTimeout)

\* "basic": dbCtx := context.WithTimeout(ctx, 10ms), ctx being r.Context().
insertContextBasic(fctx, t) == WithTimeout(RequestContext, t, 10)

\* "fetcher": dbCtx := context.WithTimeout(ctx, DatabaseInsertTimeout), ctx
\* being the context of the upstream call.
insertContextFetcher(fctx, t) == WithTimeout(fctx, t, DatabaseInsertTimeout)

InsertContext(v, fctx, t) ==
    CASE v = "gorm"    -> insertContext(fctx, t)
      [] v = "sql"     -> insertContextSql(fctx, t)
      [] v = "basic"   -> insertContextBasic(fctx, t)
      [] v = "fetcher" -> insertContextFetcher(fctx, t)

\* The Sink step of the handler.
SaveStep(v, ctx, t, table, b, lat, outcome) ==
    CASE v = "gorm"    -> saveQuote(ctx, t, table, b, lat, outcome)
      [] v = "sql"     -> saveQuoteSql(ctx, t, table, b, lat, outcome)
      [] v = "basic"   -> saveToDatabase(ctx, t, table, b, lat, outcome)
      [] v = "fetcher" -> saveQuoteToDatabase(ctx, t, table, b, lat, outcome)

SaveErrorResponse(v, e) ==
    CASE v = "gorm"    -> HttpError("Erro ao salvar cotação no banco", StatusInternalServerError)
      [] v = "sql"     -> HttpError("erro ao salvar cotação no banco", StatusInternalServerError)
      [] v = "basic"   -> HttpError("Erro ao salvar no banco", StatusInternalServerError)
      [] v = "fetcher" -> HttpError("Erro ao salvar cotação", StatusInternalServerError)

SaveErrorLog(v, e) ==
    CASE v = "gorm"    -> LogLine("Erro ao inserir no banco de dados", e)
      [] v = "sql"     -> LogLine("erro ao inserir no banco de dados", e)
      [] v = "basic"   -> LogLine("Erro ao salvar no banco", e)
      [] v = "fetcher" -> LogLine("[ERRO] Falha ao salvar cotação no banco", e)

\* The response after both steps succeeded.
handleQuoteOk(b) == JsonBid(b)

StepErr(step, e) == [step |-> step, kind |-> e.kind, isDeadline |-> e.isDeadline]
NoStepErr == StepErr("none", NoErr)


-----------------------------------------------------------------------------
(* Files *)

NoFile == [exists |-> FALSE, content |-> ""]
File(c) == [exists |-> TRUE, content |-> c]
NoLog == [exists |-> FALSE, content |-> <<>>]

\* What the file system does with one os.WriteFile: it works, the open
\* fails (the file is as before), or the write fails after the truncation.
IoOutcomes == {"ok", "openfail", "writefail"}

\* os.WriteFile(name, data, perm): open with O_WRONLY|O_CREATE|O_TRUNC, write
\* data, close.  empty is the content of an empty file.
\* [file, err]
WriteFile(file, data, empty, io) ==
    CASE io = "ok"        -> [file |-> [exists |-> TRUE, content |-> data], err |-> NoErr]
      [] io = "openfail"  -> [file |-> file, err |-> Err("io")]
      [] io = "writefail" -> [file |-> [exists |-> TRUE, content |-> empty], err |-> Err("io")]

-----------------------------------------------------------------------------
(* The server *)

\* A bug the handler could have: no return after the failed fetch is answered.
handleQuoteAfterFetch_FallThrough(failed) == "inserting"

\* Where the handler goes when the Fetcher has returned: on an error it
\* returns, otherwise it calls the Sink.
handleQuoteAfterFetch(failed) == IF failed THEN "done" ELSE "inserting"

\* Where the handler goes when the Sink has returned: it returns, after the
\* error answer or after the bid.
handleQuoteAfterSave(failed) == "done"

\* The table after setupDatabase created it.
InitialTables == {<<>>}

ClientIdle ==
    /\ cpc = "off"
    /\ cbid = ""
    /\ cerr = NoErr
    /\ outFile = NoFile
    /\ prevOutFile = NoFile
    /\ logFile = NoLog
    /\ stdout = <<>>
    /\ runs = 0
    /\ sinkArgs = [filename |-> "", bid |-> ""]
    /\ stderr = <<>>
    /\ ccalls = [fetch |-> 0, save |-> 0]

Init ==
    /\ variant \in Variants
    /\ db \in InitialTables
    /\ pc = [r \in Requests |-> "idle"]
    /\ now = [r \in Requests |-> 0]
    /\ fetchCtx = [r \in Requests |-> Background]
    /\ insertCtx = [r \in Requests |-> Background]
    /\ insertStart = [r \in Requests |-> 0]
    /\ bid = [r \in Requests |-> ""]
    /\ sent = [r \in Requests |-> NoBid]
    /\ upStatus = [r \in Requests |-> 0]
    /\ upDone = [r \in Requests |-> 0]
    /\ err = [r \in Requests |-> NoStepErr]
    /\ resp = [r \in Requests |-> NoResp]
    /\ log = [r \in Requests |-> <<>>]
    /\ rowId = [r \in Requests |-> 0]
    /\ calls = [r \in Requests |-> [fetch |-> 0, save |-> 0]]
    /\ hang = [r \in Requests |-> FALSE]
    /\ ClientIdle

\* The handler is entered: it logs and makes the context of the upstream call.
Receive(r) ==
    /\ pc[r] = "idle"
    /\ pc' = [pc EXCEPT ![r] = "fetching"]
    /\ fetchCtx' = [fetchCtx EXCEPT ![r] = FetchContext(variant, now[r])]
    /\ log' = [log EXCEPT ![r] = EntryLog(variant)]
    /\ calls' = [calls EXCEPT ![r].fetch = @ + 1]
    /\ \E h \in BOOLEAN : hang' = [hang EXCEPT ![r] = h]
    /\ UNCHANGED <<variant, db, now, insertCtx, insertStart, bid, sent, upStatus, upDone,
                   err, resp, rowId>>
    /\ UNCHANGED clientVars

\* The Fetcher returns.  On an error the handler logs, answers and ends;
\* otherwise it makes the context of the insert and calls the Sink.
FetchReturn(r) ==
    /\ pc[r] = "fetching"
    /\ Returns(fetchCtx[r], hang[r])
    /\ \E up \in Answers(hang[r]) :
         LET res == FetchStep(variant, fetchCtx[r], now[r], up) IN
         /\ sent' = [sent EXCEPT ![r] = SentBid(up)]
         /\ upStatus' = [upStatus EXCEPT ![r] = up.status]
         /\ upDone' = [upDone EXCEPT ![r] = up.hd + up.bd]
         /\ now' = [now EXCEPT ![r] = res.at]
         /\ bid' = [bid EXCEPT ![r] = res.bid]
         /\ pc' = [pc EXCEPT ![r] = handleQuoteAfterFetch(res.err # NoErr)]
         /\ calls' = [calls EXCEPT ![r].save =
                        IF handleQuoteAfterFetch(res.err # NoErr) = "inserting"
                        THEN @ + 1 ELSE @]
         /\ IF res.err # NoErr
            THEN /\ err' = [err EXCEPT ![r] = StepErr("fetch", res.err)]
                 /\ log' = [log EXCEPT ![r] = Append(@, FetchErrorLog(variant, res.err))]
                 /\ resp' = [resp EXCEPT ![r] = FetchErrorResponse(variant, res.err)]
                 /\ hang' = [hang EXCEPT ![r] = FALSE]
                 /\ UNCHANGED <<insertCtx, insertStart>>
            ELSE /\ insertCtx' = [insertCtx EXCEPT ![r] =
                                    InsertContext(variant, fetchCtx[r], res.at)]
                 /\ insertStart' = [insertStart EXCEPT ![r] = res.at]
                 /\ \E h \in BOOLEAN : hang' = [hang EXCEPT ![r] = h]
                 /\ UNCHANGED <<err, log, resp>>
    /\ UNCHANGED <<variant, db, fetchCtx, rowId>>
    /\ UNCHANGED clientVars

\* The Sink returns.  On an error the handler logs and answers with an
\* error; otherwise it answers with the bid.
SaveReturn(r) ==
    /\ pc[r] = "inserting"
    /\ Returns(insertCtx[r], hang[r])
    /\ hang' = [hang EXCEPT ![r] = FALSE]
    /\ \E lat \in Latencies(hang[r]), outcome \in DbOutcomes :
         LET sv == SaveStep(variant, insertCtx[r], now[r], db, bid[r], lat, outcome) IN
         /\ db' = sv.db
         /\ now' = [now EXCEPT ![r] = sv.at]
         /\ pc' = [pc EXCEPT ![r] = handleQuoteAfterSave(sv.err # NoErr)]
         /\ IF sv.err # NoErr
            THEN /\ err' = [err EXCEPT ![r] = StepErr("save", sv.err)]
                 /\ log' = [log EXCEPT ![r] = Append(@, SaveErrorLog(variant, sv.err))]
                 /\ resp' = [resp EXCEPT ![r] = SaveErrorResponse(variant, sv.err)]
                 /\ UNCHANGED rowId
            ELSE /\ rowId' = [rowId EXCEPT ![r] = InsertedId(db, sv.db)]
                 /\ resp' = [resp EXCEPT ![r] = handleQuoteOk(bid[r])]
                 /\ UNCHANGED <<err, log>>
    /\ UNCHANGED <<variant, fetchCtx, insertCtx, insertStart, bid, sent, upStatus, upDone,
                   calls>>
    /\ UNCHANGED clientVars

Next == \E r \in Requests : Receive(r) \/ FetchReturn(r) \/ SaveReturn(r)

Spec == Init /\ [][Next]_vars

\* A call that can return does return: the upstream and the database answer
\* or the timer of the call's context fires, and the Go scheduler runs the
\* handler's goroutine.
Fairness == \A r \in Requests : WF_vars(FetchReturn(r)) /\ WF_vars(SaveReturn(r))

\* The server of src/server/server.go is the one running.
InitLive == Init /\ variant = "gorm"

SpecLive == InitLive /\ [][Next]_vars /\ Fairness


-----------------------------------------------------------------------------
(* The client *)

outputFile == "cotacao.txt"

\* What the server at serverURL does with the client's request.
ServerAnswers ==
    {[kind |-> "refused", status |-> 0, body |-> Text(""), hd |-> 100, bd |-> 0]}
    \cup {[kind |-> "response", status |-> StatusOK, body |-> JsonBid(b).body,
           hd |-> h, bd |-> 0] : b \in Bids \cup {""}, h \in {100, 350}}
    \cup {[kind |-> "response", status |-> StatusOK, body |-> b, hd |-> 100, bd |-> 0] :
            b \in {JObj(EmptyMap), Text("<html>")}}
    \cup {[kind |-> "response", status |-> StatusInternalServerError,
           body |-> Text("Erro ao buscar cotação\n"), hd |-> 100, bd |-> 0],
          [kind |-> "response", status |-> StatusGatewayTimeout,
           body |-> Text("Timeout na requisição à API\n"), hd |-> 250, bd |-> 0]}

\* fetchDollarQuote of the client.
fetchDollarQuote(ctx, t, up) ==
    LET do == ClientDo(ctx, t, up)
        rd == ReadBody(ctx, do.at, up)
        data == DecodeMap(up.body)
    IN  IF do.err # NoErr THEN FetchResult("", do.err, do.at)
        ELSE IF up.status # StatusOK THEN FetchResult("", Err("status"), rd.at)
        ELSE IF rd.err # NoErr THEN FetchResult("", [rd.err EXCEPT !.kind = "decode"], rd.at)
        ELSE IF ~DecodeMapOk(up.body) THEN FetchResult("", Err("decode"), rd.at)
        ELSE IF "bid" \notin DOMAIN data \/ data["bid"] = ""
             THEN FetchResult("", Err("missing"), rd.at)
        ELSE FetchResult(data["bid"], NoErr, rd.at)

\* A bug the file Sink could have: the file is opened for appending.
saveQuoteToFile_Append(filename, content, file, io) ==
    IF filename = "" THEN [file |-> file, err |-> Err("validation")]
    ELSE IF content = "" THEN [file |-> file, err |-> Err("validation")]
    ELSE WriteFile(file, file.content \o content, "", io)

\* saveQuoteToFile(filename, content), file being the file at outputFile.
\* [file, err]
saveQuoteToFile(filename, content, file, io) ==
    IF filename = "" THEN [file |-> file, err |-> Err("validation")]
    ELSE IF content = "" THEN [file |-> file, err |-> Err("validation")]
    ELSE WriteFile(file, content, "", io)

\* fmt.Sprintf("Dólar: %s", bid)
FormatQuote(b) == "Dólar: " \o b

\* The Sink call of main: saveQuoteToFile(outputFile, fmt.Sprintf("Dólar: %s", bid)).
mainSave(filename, b, file, io) == saveQuoteToFile(filename, FormatQuote(b), file, io)

\* logError(err) at time ts: os.WriteFile(logFile, []byte(logMessage),
\* os.ModeAppend|0644).  The mode bits are permissions of a created file;
\* the flags of the open are those of os.WriteFile.
LogEntry(ts, e) == [ts |-> ts, err |-> e]
logError(file, ts, e, io) == WriteFile(file, <<LogEntry(ts, e)>>, <<>>, io).file

\* What logError(err) writes with the standard logger: the error of the
\* write, if it failed, and then err itself.
StderrLine(msg, e) == [msg |-> msg, err |-> e]
logErrorLines(file, ts, e, io) ==
    LET logErr == WriteFile(file, <<LogEntry(ts, e)>>, <<>>, io).err
    IN  IF logErr # NoErr
        THEN <<StderrLine("Erro ao salvar no log: ", logErr), StderrLine("", e)>>
        ELSE <<StderrLine("", e)>>

\* A bug main could have: no return after the failed fetch is logged.
mainAfterFetch_FallThrough(failed) == "saving"

\* Where main goes when fetchDollarQuote has returned: on an error it
\* returns, otherwise it calls the Sink.
mainAfterFetch(failed) == IF failed THEN "exit" ELSE "saving"

\* Files a run of the client may find.
PriorOutFiles == {NoFile, File(""), File("Dólar: 4.99"), File("a longer older content")}
PriorLogs == {NoLog, [exists |-> TRUE, content |-> <<LogEntry(0, Err("do"))>>]}

ServerIdle ==
    /\ variant = "gorm"
    /\ db = <<>>
    /\ pc = [r \in Requests |-> "idle"]
    /\ now = [r \in Requests |-> 0]
    /\ fetchCtx = [r \in Requests |-> Background]
    /\ insertCtx = [r \in Requests |-> Background]
    /\ insertStart = [r \in Requests |-> 0]
    /\ bid = [r \in Requests |-> ""]
    /\ sent = [r \in Requests |-> NoBid]
    /\ upStatus = [r \in Requests |-> 0]
    /\ upDone = [r \in Requests |-> 0]
    /\ err = [r \in Requests |-> NoStepErr]
    /\ resp = [r \in Requests |-> NoResp]
    /\ log = [r \in Requests |-> <<>>]
    /\ rowId = [r \in Requests |-> 0]
    /\ calls = [r \in Requests |-> [fetch |-> 0, save |-> 0]]
    /\ hang = [r \in Requests |-> FALSE]

\* The first run of the client has started.
InitClient ==
    /\ ServerIdle
    /\ cpc = "fetching"
    /\ cbid = ""
    /\ cerr = NoErr
    /\ outFile \in PriorOutFiles
    /\ prevOutFile = outFile
    /\ logFile \in PriorLogs
    /\ stdout = <<>>
    /\ runs = 1
    /\ sinkArgs = [filename |-> "", bid |-> ""]
    /\ stderr = <<>>
    /\ ccalls = [fetch |-> 0, save |-> 0]

\* main, from its start to the return of fetchDollarQuote and, on an error,
\* to its end.
ClientFetchReturn ==
    /\ cpc = "fetching"
    /\ \E up \in ServerAnswers, io \in IoOutcomes :
         LET res == fetchDollarQuote(WithTimeout(Background, 0, timeoutDuration), 0, up) IN
         /\ cbid' = res.bid
         /\ cerr' = res.err
         /\ IF res.err # NoErr
            THEN /\ logFile' = logError(logFile, runs, res.err, io)
                 /\ stderr' = stderr \o logErrorLines(logFile, runs, res.err, io)
                 /\ stdout' = Append(stdout, "Erro ao buscar cotação. Detalhes salvos no log.")
            ELSE /\ UNCHANGED <<logFile, stdout, stderr>>
         /\ cpc' = mainAfterFetch(res.err # NoErr)
    /\ ccalls' = [ccalls EXCEPT !.fetch = @ + 1]
    /\ UNCHANGED <<outFile, prevOutFile, runs, sinkArgs>>
    /\ UNCHANGED serverVars

\* main, from the call of saveQuoteToFile to its end.
ClientSave ==
    /\ cpc = "saving"
    /\ \E io \in IoOutcomes, logIo \in IoOutcomes :
         LET sv == mainSave(outputFile, cbid, outFile, io) IN
         /\ sinkArgs' = [filename |-> outputFile, bid |-> cbid]
         /\ prevOutFile' = outFile
         /\ outFile' = sv.file
         /\ cerr' = sv.err
         /\ cpc' = "exit"
         /\ IF sv.err # NoErr
            THEN /\ logFile' = logError(logFile, runs, [sv.err EXCEPT !.kind = "save"], logIo)
                 /\ stderr' = stderr \o logErrorLines(logFile, runs,
                                                      [sv.err EXCEPT !.kind = "save"], logIo)
                 /\ stdout' = Append(stdout, "Erro ao salvar cotação.")
            ELSE /\ stdout' = Append(stdout, "Cotação salva com sucesso em " \o outputFile)
                 /\ UNCHANGED <<logFile, stderr>>
    /\ ccalls' = [ccalls EXCEPT !.save = @ + 1]
    /\ UNCHANGED <<cbid, runs>>
    /\ UNCHANGED serverVars

\* The client is started again.
ClientRerun ==
    /\ cpc = "exit"
    /\ runs < MaxRuns
    /\ runs' = runs + 1
    /\ cpc' = "fetching"
    /\ cbid' = ""
    /\ cerr' = NoErr
    /\ stdout' = <<>>
    /\ stderr' = <<>>
    /\ ccalls' = [fetch |-> 0, save |-> 0]
    /\ UNCHANGED <<outFile, prevOutFile, logFile, sinkArgs>>
    /\ UNCHANGED serverVars

NextClient == ClientFetchReturn \/ ClientSave \/ ClientRerun

SpecClient == InitClient /\ [][NextClient]_vars

-----------------------------------------------------------------------------
(* The file Sink alone, called as main calls it, with any bid and path *)

SinkFilenames == {"", outputFile}

InitSink ==
    /\ ServerIdle
    /\ cpc = "sink"
    /\ cbid = ""
    /\ cerr = NoErr
    /\ outFile \in PriorOutFiles
    /\ prevOutFile = outFile
    /\ logFile = NoLog
    /\ stdout = <<>>
    /\ runs = 0
    /\ sinkArgs = [filename |-> "", bid |-> ""]
    /\ stderr = <<>>
    /\ ccalls = [fetch |-> 0, save |-> 0]

SinkCall ==
    /\ cpc = "sink"
    /\ runs < MaxRuns
    /\ \E fn \in SinkFilenames, b \in Bids \cup {""}, io \in IoOutcomes :
         LET sv == mainSave(fn, b, outFile, io) IN
         /\ sinkArgs' = [filename |-> fn, bid |-> b]
         /\ prevOutFile' = outFile
         /\ outFile' = sv.file
         /\ cerr' = sv.err
    /\ runs' = runs + 1
    /\ UNCHANGED <<cpc, cbid, logFile, stdout, stderr, ccalls>>
    /\ UNCHANGED serverVars

NextSink == SinkCall

SpecSink == InitSink /\ [][NextSink]_vars


-----------------------------------------------------------------------------
(* Properties of the server *)

Past(r) == pc[r] \in {"inserting", "done"}
Failed(r) == pc[r] = "done" /\ err[r].step # "none"
Succeeded(r) == pc[r] = "done" /\ err[r].step = "none"

\* The upstream had not completed its answer when the fetch deadline came.
UpstreamLate(r) == Past(r) /\ upDone[r] >= FetchTimeout

\* C1: in the "gorm" handler, when the Fetcher returned a bid and the insert
\* succeeded, the response is 200 with the JSON body {"bid": b}, b being
\* exactly the string the upstream sent at USDBRL.bid.
C1_OkResponseCarriesUpstreamBid ==
    variant = "gorm" =>
        \A r \in Requests :
            Succeeded(r) =>
                /\ sent[r] # NoBid
                /\ bid[r] = sent[r]
                /\ resp[r].status = StatusOK
                /\ resp[r].ctype = "application/json"
                /\ resp[r].body = JObj("bid" :> JStr(sent[r]))

C1_Witness ==
    \E r \in Requests :
        /\ variant = "gorm"
        /\ Succeeded(r)
        /\ sent[r] = "5.20"
        /\ resp[r].status = StatusOK
        /\ rowId[r] # 0

\* C2: in the "gorm" handler, when the upstream has not completed at the
\* fetch deadline, the response is 504, the Sink is not invoked and the
\* request adds no row; rows come only from requests whose insert succeeded.
C2_LateUpstreamIs504 ==
    variant = "gorm" =>
        /\ \A r \in Requests :
              UpstreamLate(r) =>
                  /\ pc[r] = "done"
                  /\ err[r].step = "fetch"
                  /\ resp[r].status = StatusGatewayTimeout
                  /\ insertCtx[r] = Background
                  /\ rowId[r] = 0
                  /\ now[r] = FetchTimeout
        /\ Len(db) = Cardinality({r \in Requests : rowId[r] # 0})

C2_Witness ==
    \E r \in Requests :
        /\ variant = "gorm"
        /\ UpstreamLate(r)
        /\ upDone[r] = 300
        /\ resp[r].status = StatusGatewayTimeout
        /\ \E q \in Requests : rowId[q] # 0

\* C3: in the "gorm" handler, when the upstream answers before the fetch
\* deadline with a status other than 200, the Fetcher fails, the response is
\* 500 and the request adds no row.
C3_BadStatusIs500 ==
    variant = "gorm" =>
        \A r \in Requests :
            (Past(r) /\ upStatus[r] \notin {0, StatusOK} /\ upDone[r] < FetchTimeout) =>
                /\ pc[r] = "done"
                /\ err[r].step = "fetch"
                /\ resp[r].status = StatusInternalServerError
                /\ insertCtx[r] = Background
                /\ rowId[r] = 0
                /\ \A i \in 1..Len(db) : \E q \in Requests \ {r} : rowId[q] = db[i].id

C3_Witness ==
    \E r \in Requests :
        /\ variant = "gorm"
        /\ pc[r] = "done"
        /\ upStatus[r] = 503
        /\ upDone[r] < FetchTimeout
        /\ sent[r] = "5.43"
        /\ resp[r].status = StatusInternalServerError

\* C4: in every server variant the insert deadline is the full insert
\* timeout measured from the moment the insert step begins, whatever the
\* fetch consumed.
C4_InsertDeadlineIndependent ==
    \A r \in Requests :
        (Past(r) /\ err[r].step # "fetch") =>
            insertCtx[r] = [has |-> TRUE, deadline |-> insertStart[r] + InsertTimeout]

\* C5: a successful Sink call adds exactly one row, carrying the bid passed
\* in and a fresh id, and leaves every earlier row as it was, also when a
\* row with the same bid is already there.
C5_InsertAppendsOneRow ==
    [][\A r \in Requests :
          (pc[r] = "inserting" /\ pc'[r] = "done" /\ err'[r].step = "none") =>
              /\ Len(db') = Len(db) + 1
              /\ SubSeq(db', 1, Len(db)) = db
              /\ db'[Len(db')].bid = bid[r]
              /\ \A i \in 1..Len(db) : db[i].id # db'[Len(db')].id]_vars

C5_Witness ==
    \E i, j \in 1..Len(db) :
        /\ i < j
        /\ db[i].bid = db[j].bid
        /\ db[i].id # db[j].id
        /\ \A r \in Requests : Succeeded(r) /\ bid[r] = db[i].bid

\* C6: in every server variant, a 200 answer whose JSON lacks USDBRL.bid or
\* carries it empty makes the Fetcher step fail (with the missing-field
\* failure when the bid is the empty string and the answer came in time):
\* no row is inserted and the response is not 200.
C6_EmptyBidRejected ==
    \A r \in Requests :
        (Past(r) /\ upStatus[r] = StatusOK /\ sent[r] \in {"", NoBid}) =>
            /\ pc[r] = "done"
            /\ err[r].step = "fetch"
            /\ (sent[r] = "" /\ upDone[r] < FetchTimeout) => err[r].kind = "missing"
            /\ rowId[r] = 0
            /\ resp[r].status # StatusOK

\* C7: in the "gorm" handler a request gets 200 with the bid only if both
\* steps succeeded and its row with that bid is in the table; if a step
\* failed the response is 500 or 504, carries no bid, and no row was added.
C7_NoPartialSuccess ==
    variant = "gorm" =>
        \A r \in Requests :
            pc[r] = "done" =>
                /\ resp[r].status = StatusOK =>
                      /\ err[r].step = "none"
                      /\ rowId[r] \in 1..Len(db)
                      /\ db[rowId[r]] = Row(rowId[r], bid[r])
                      /\ resp[r].body = JObj("bid" :> JStr(bid[r]))
                /\ err[r].step # "none" =>
                      /\ resp[r].status \in {StatusInternalServerError, StatusGatewayTimeout}
                      /\ resp[r].body.t = "text"
                      /\ rowId[r] = 0

C7_Witness ==
    \E r, q \in Requests :
        /\ variant = "gorm"
        /\ pc[r] = "done"
        /\ err[r] = StepErr("save", DeadlineErr("exec"))
        /\ resp[r].status = StatusInternalServerError
        /\ bid[r] = "5.43"
        /\ Succeeded(q)
        /\ resp[q].status = StatusOK

\* C8, as claimed: in the "gorm" handler two failing requests with the same
\* status, one failing in the Fetcher and one in the Sink, get the same
\* response.
C8_SameResponseAcrossSteps ==
    variant = "gorm" =>
        \A r, q \in Requests :
            (/\ Failed(r) /\ Failed(q)
             /\ err[r].step = "fetch" /\ ~err[r].isDeadline
             /\ err[q].step = "save"
             /\ resp[r].status = resp[q].status) => resp[r] = resp[q]

\* C8, amended: in the "gorm" handler the response to a failing request is
\* fixed by the failing step and by whether the Fetcher hit its deadline,
\* and by nothing else of the error; a Fetcher failure and a Sink failure
\* with the same status differ in the body; the error itself is in the log.
C8_ResponseFixedByStep ==
    variant = "gorm" =>
        /\ \A r, q \in Requests :
              (/\ Failed(r) /\ Failed(q)
               /\ err[r].step = err[q].step
               /\ (err[r].step = "fetch" => err[r].isDeadline = err[q].isDeadline))
                  => resp[r] = resp[q]
        /\ \A r, q \in Requests :
              (Failed(r) /\ Failed(q) /\ err[r].step # err[q].step)
                  => resp[r].body # resp[q].body
        /\ \A r \in Requests :
              Failed(r) =>
                  /\ log[r] # <<>>
                  /\ log[r][Len(log[r])].err = [kind |-> err[r].kind,
                                                isDeadline |-> err[r].isDeadline]

C8_Witness ==
    \E r, q \in Requests :
        /\ variant = "gorm"
        /\ Failed(r) /\ Failed(q)
        /\ err[r] = StepErr("fetch", Err("status"))
        /\ err[q] = StepErr("fetch", Err("missing"))
        /\ resp[r] = resp[q]
        /\ log[r] # log[q]

\* C12: in the "gorm" handler every request that was received has called
\* the Fetcher exactly once; it has called the Sink at most once, and
\* exactly when the Fetcher returned without an error; a request whose
\* step failed is done, and a request that is done takes no further step.
C12_TerminalOnFirstFailure ==
    /\ [](variant = "gorm" =>
            \A r \in Requests :
                /\ pc[r] = "idle" => calls[r] = [fetch |-> 0, save |-> 0]
                /\ pc[r] # "idle" => calls[r].fetch = 1
                /\ calls[r].save <= 1
                /\ calls[r].save = 1 <=> (Past(r) /\ err[r].step # "fetch")
                /\ err[r].step # "none" => pc[r] = "done"
                /\ err[r].step = "fetch" => calls[r].save = 0 /\ rowId[r] = 0)
    /\ [][variant = "gorm" =>
            \A r \in Requests :
                pc[r] = "done" =>
                    /\ pc'[r] = "done"
                    /\ calls'[r] = calls[r]
                    /\ resp'[r] = resp[r]
                    /\ err'[r] = err[r]]_vars

C12_Witness ==
    \E r, q \in Requests :
        /\ variant = "gorm"
        /\ Failed(r) /\ Failed(q)
        /\ err[r].step = "fetch" /\ calls[r] = [fetch |-> 1, save |-> 0]
        /\ err[q].step = "save" /\ calls[q] = [fetch |-> 1, save |-> 1]

\* C13: in the "gorm" handler, under every interleaving of the requests,
\* the table holds one row per request whose Sink succeeded; the requests
\* answered 200 are those requests, each has a row of its own, and the bid
\* of its row and of its response is the bid its own upstream call fetched.
C13_OneRowPerSuccess ==
    variant = "gorm" =>
        /\ Len(db) = Cardinality({r \in Requests : Succeeded(r)})
        /\ \A r \in Requests :
              /\ resp[r].status = StatusOK <=> Succeeded(r)
              /\ Succeeded(r) =>
                    /\ rowId[r] \in 1..Len(db)
                    /\ db[rowId[r]].id = rowId[r]
                    /\ db[rowId[r]].bid = sent[r]
                    /\ bid[r] = sent[r]
                    /\ resp[r].body = JObj("bid" :> JStr(sent[r]))
        /\ \A r, q \in Requests :
              (r # q /\ Succeeded(r) /\ Succeeded(q)) => rowId[r] # rowId[q]

C13_Witness ==
    /\ variant = "gorm"
    /\ Succeeded(1) /\ Succeeded(2)
    /\ sent[1] = "5.20" /\ sent[2] = "5.43"
    /\ rowId[1] = 2 /\ rowId[2] = 1
    /\ now[1] < now[2]
    /\ db = <<Row(1, "5.43"), Row(2, "5.20")>>

\* C14: in the "gorm" handler, when every call that can return does return,
\* every received request is eventually done; a request is answered once,
\* when it is done, with 200, 500 or 504, at most FetchTimeout plus
\* InsertTimeout after it was received; an upstream call that never
\* completes fails with the deadline error at FetchTimeout and is answered
\* 504, an insert that never completes fails with the deadline error
\* InsertTimeout after its start and is answered 500.
C14_EveryRequestAnswered ==
    /\ \A r \in Requests : (variant = "gorm" /\ pc[r] # "idle") ~> (pc[r] = "done")
    /\ [](variant = "gorm" =>
            \A r \in Requests :
                /\ pc[r] = "done" =>
                      /\ resp[r].status \in {StatusOK, StatusInternalServerError,
                                             StatusGatewayTimeout}
                      /\ now[r] <= FetchTimeout + InsertTimeout
                /\ pc[r] # "done" => resp[r] = NoResp)
    /\ [][variant = "gorm" =>
            \A r \in Requests :
                /\ resp[r] # NoResp => resp'[r] = resp[r]
                /\ (hang[r] /\ pc[r] = "fetching" /\ pc'[r] # "fetching") =>
                      /\ pc'[r] = "done"
                      /\ err'[r] = StepErr("fetch", DeadlineErr("do"))
                      /\ now'[r] = FetchTimeout
                      /\ resp'[r].status = StatusGatewayTimeout
                /\ (hang[r] /\ pc[r] = "inserting" /\ pc'[r] # "inserting") =>
                      /\ pc'[r] = "done"
                      /\ err'[r] = StepErr("save", DeadlineErr("exec"))
                      /\ now'[r] = insertStart[r] + InsertTimeout
                      /\ resp'[r].status = StatusInternalServerError]_vars

C14_Witness ==
    \E r, q \in Requests :
        /\ variant = "gorm"
        /\ pc[r] = "done" /\ upDone[r] = Silent.hd
        /\ resp[r].status = StatusGatewayTimeout
        /\ pc[q] = "inserting" /\ hang[q]
        /\ insertCtx[q].has

-----------------------------------------------------------------------------
(* Properties of the client *)

C10_FileHoldsQuote ==
    (cpc = "exit" /\ cbid # "") => outFile = File("Dólar: " \o cbid)

\* C10, amended: after a run whose fetch returned the non-empty bid b and
\* whose write succeeded, the output file holds exactly "Dólar: " followed
\* by b, whatever it held before.
C10_FileHoldsQuoteWhenWritten ==
    (cpc = "exit" /\ cbid # "" /\ cerr = NoErr) => outFile = File("Dólar: " \o cbid)

C10_Witness ==
    /\ cpc = "exit"
    /\ cbid = "5.20"
    /\ cerr = NoErr
    /\ prevOutFile = File("a longer older content")
    /\ outFile = File("Dólar: 5.20")

\* The fetch of the current run failed and main has ended.
FetchFailedRun == cpc = "exit" /\ ccalls.save = 0

\* logError was called with cerr: the standard logger has it as its last
\* line, and the log file holds its entry unless the write of the log
\* failed, which the standard logger then has as well.
Logged ==
    /\ stderr # <<>>
    /\ stderr[Len(stderr)] = StderrLine("", cerr)
    /\ \/ logFile.exists /\ logFile.content # <<>>
          /\ logFile.content[Len(logFile.content)] = LogEntry(runs, cerr)
       \/ stderr[1].msg = "Erro ao salvar no log: "

\* C11: a run of the client calls fetchDollarQuote once; it calls the Sink
\* at most once, and only after the fetch returned a bid; a run whose fetch
\* failed (timeout, transport, status, decode, missing bid) logs the error,
\* prints the failure and ends with the fetch called once and the Sink never
\* called; the output file changes only in the Sink call that follows a
\* successful fetch.
C11_FetchThenWriteOnce ==
    /\ [](/\ (cpc = "fetching" => ccalls = [fetch |-> 0, save |-> 0])
          /\ (cpc \in {"saving", "exit"} => ccalls.fetch = 1)
          /\ ccalls.save <= 1
          /\ (ccalls.save = 1 => cpc = "exit" /\ cbid # "")
          /\ (cpc = "saving" => cbid # "" /\ cerr = NoErr)
          /\ (FetchFailedRun =>
                /\ cbid = ""
                /\ cerr.kind \in {"do", "status", "decode", "missing"}
                /\ Logged
                /\ stdout = <<"Erro ao buscar cotação. Detalhes salvos no log.">>))
    /\ [][outFile' # outFile => cpc = "saving" /\ cbid # "" /\ ccalls'.save = 1]_vars

C11_Witness ==
    /\ FetchFailedRun
    /\ runs = 2
    /\ cerr = DeadlineErr("do")
    /\ ccalls = [fetch |-> 1, save |-> 0]
    /\ outFile = File("Dólar: 5.20")
    /\ logFile.content = <<LogEntry(2, DeadlineErr("do"))>>

\* C15: a call of logError whose write of the log succeeded leaves in the log
\* file every entry it held before, followed by one entry for the error.
C15_LogAccumulates ==
    [][Len(stderr') = Len(stderr) + 1 =>
          /\ Len(logFile'.content) = Len(logFile.content) + 1
          /\ SubSeq(logFile'.content, 1, Len(logFile.content)) = logFile.content
          /\ logFile'.content[Len(logFile'.content)] = LogEntry(runs, stderr'[Len(stderr')].err)]_vars

=============================================================================
